---- MODULE Spec2Model ----
(***************************************************************************)
(* A model of universal-url-codec (src/src/index.ts): encode, decode and   *)
(* the ECMAScript primitives they are built on.  A JavaScript string is a  *)
(* sequence of UTF-16 code units (naturals below 65536); the result of a   *)
(* call is a record [kind, val] whose kind is "return" or the name of the  *)
(* exception the call raised.                                              *)
(***************************************************************************)
EXTENDS Integers, Sequences, FiniteSets, TLC

VARIABLES input, pc, eopts, dopts, enc, dec, urlenc, urlagain, qenc, qdec, warnings

vars == <<input, pc, eopts, dopts, enc, dec, urlenc, urlagain, qenc, qdec, warnings>>

----------------------------------------------------------------------------
(* Notation: the code unit of an ASCII character, and string literals.     *)

(* The printable ASCII characters in code order, U+0020 to U+007E; the     *)
(* double quote, backslash and backtick are written by name.              *)
AsciiChars ==
  <<
    " ", "!", "dquote", "#", "$", "%", "&", "'", "(", ")", "*", "+",
    ",", "-", ".", "/", "0", "1", "2", "3", "4", "5", "6", "7",
    "8", "9", ":", ";", "<", "=", ">", "?", "@", "A", "B", "C",
    "D", "E", "F", "G", "H", "I", "J", "K", "L", "M", "N", "O",
    "P", "Q", "R", "S", "T", "U", "V", "W", "X", "Y", "Z", "[",
    "backslash", "]", "^", "_", "backtick", "a", "b", "c", "d", "e", "f", "g",
    "h", "i", "j", "k", "l", "m", "n", "o", "p", "q", "r", "s",
    "t", "u", "v", "w", "x", "y", "z", "{", "|", "}", "~"
  >>

AsciiTable ==
  [c \in {AsciiChars[i] : i \in DOMAIN AsciiChars} |->
     31 + (CHOOSE i \in DOMAIN AsciiChars : AsciiChars[i] = c)]

Ch(c) == AsciiTable[c]

Str(cs) == [i \in DOMAIN cs |-> Ch(cs[i])]

(* Non-ASCII code units used as inputs: U+00E9, U+20AC, and the surrogate  *)
(* pair D83C DF89 of U+1F389.                                              *)
EAcute == <<233>>
Euro == <<8364>>
HiSurr == <<55356>>
LoSurr == <<57225>>

----------------------------------------------------------------------------
(* Sequence helpers *)

RECURSIVE Flatten(_)
Flatten(ss) == IF ss = <<>> THEN <<>> ELSE Head(ss) \o Flatten(Tail(ss))

StartsWithAt(s, k, pat) ==
  /\ k + Len(pat) - 1 <= Len(s)
  /\ \A i \in 1..Len(pat) : s[k + i - 1] = pat[i]

(* String.prototype.replace with a global regular expression that matches  *)
(* the literal text pat: leftmost, non-overlapping matches, left to right. *)
RECURSIVE ReplaceFrom(_, _, _, _)
ReplaceFrom(s, k, pat, rep) ==
  IF k > Len(s) THEN <<>>
  ELSE IF StartsWithAt(s, k, pat)
       THEN rep \o ReplaceFrom(s, k + Len(pat), pat, rep)
       ELSE <<s[k]>> \o ReplaceFrom(s, k + 1, pat, rep)

ReplaceAll(s, pat, rep) == ReplaceFrom(s, 1, pat, rep)

(* String.prototype.split(c) for a one-unit separator c. *)
RECURSIVE SplitFrom(_, _, _, _)
SplitFrom(s, k, c, cur) ==
  IF k > Len(s) THEN <<cur>>
  ELSE IF s[k] = c THEN <<cur>> \o SplitFrom(s, k + 1, c, <<>>)
  ELSE SplitFrom(s, k + 1, c, Append(cur, s[k]))

SplitAt(s, c) == SplitFrom(s, 1, c, <<>>)

----------------------------------------------------------------------------
(* UTF-16 and UTF-8 *)

IsHighSurrogate(u) == u >= 55296 /\ u <= 56319
IsLowSurrogate(u) == u >= 56320 /\ u <= 57343

(* CodePointAt(string, position), position counted from 1: the code point, *)
(* the number of code units it takes, and whether it is an unpaired        *)
(* surrogate.                                                              *)
CodePointAt(s, k) ==
  LET first == s[k] IN
  IF ~IsHighSurrogate(first) /\ ~IsLowSurrogate(first)
  THEN [cp |-> first, count |-> 1, unpaired |-> FALSE]
  ELSE IF IsLowSurrogate(first) \/ k + 1 > Len(s)
  THEN [cp |-> first, count |-> 1, unpaired |-> TRUE]
  ELSE IF ~IsLowSurrogate(s[k + 1])
  THEN [cp |-> first, count |-> 1, unpaired |-> TRUE]
  ELSE [cp |-> (first - 55296) * 1024 + (s[k + 1] - 56320) + 65536,
        count |-> 2, unpaired |-> FALSE]

UTF16EncodeCodePoint(cp) ==
  IF cp < 65536 THEN <<cp>>
  ELSE <<55296 + ((cp - 65536) \div 1024), 56320 + ((cp - 65536) % 1024)>>

UTF8Octets(cp) ==
  IF cp < 128 THEN <<cp>>
  ELSE IF cp < 2048 THEN <<192 + (cp \div 64), 128 + (cp % 64)>>
  ELSE IF cp < 65536
  THEN <<224 + (cp \div 4096), 128 + ((cp \div 64) % 64), 128 + (cp % 64)>>
  ELSE <<240 + (cp \div 262144), 128 + ((cp \div 4096) % 64),
         128 + ((cp \div 64) % 64), 128 + (cp % 64)>>

UpperHexDigit(d) == IF d < 10 THEN 48 + d ELSE 55 + d

PercentOctet(b) == <<37, UpperHexDigit(b \div 16), UpperHexDigit(b % 16)>>

PercentOctets(bs) == Flatten([i \in DOMAIN bs |-> PercentOctet(bs[i])])

IsAlnum(u) ==
  \/ u >= 65 /\ u <= 90
  \/ u >= 97 /\ u <= 122
  \/ u >= 48 /\ u <= 57

(* uriUnescaped of encodeURIComponent: alphanumerics and - _ . ! ~ * ' ( ) *)
UriUnescaped(u) == IsAlnum(u) \/ u \in {45, 95, 46, 33, 126, 42, 39, 40, 41}

Return(v) == [kind |-> "return", val |-> v]
Throw(e) == [kind |-> e, val |-> <<>>]

(* encodeURIComponent: ECMAScript Encode(string, uriUnescaped).  k counts  *)
(* from 1.  The result is ok with the text, or not ok (URIError).          *)
RECURSIVE EncodeFrom(_, _)
EncodeFrom(s, k) ==
  IF k > Len(s) THEN [ok |-> TRUE, val |-> <<>>]
  ELSE IF UriUnescaped(s[k])
  THEN LET rest == EncodeFrom(s, k + 1) IN
       [ok |-> rest.ok, val |-> <<s[k]>> \o rest.val]
  ELSE LET c == CodePointAt(s, k) IN
       IF c.unpaired THEN [ok |-> FALSE, val |-> <<>>]
       ELSE LET rest == EncodeFrom(s, k + c.count) IN
            [ok |-> rest.ok, val |-> PercentOctets(UTF8Octets(c.cp)) \o rest.val]

encodeURIComponent(s) ==
  LET r == EncodeFrom(s, 1) IN
  IF r.ok THEN Return(r.val) ELSE Throw("URIError")

HexValue(u) ==
  IF u >= 48 /\ u <= 57 THEN u - 48
  ELSE IF u >= 65 /\ u <= 70 THEN u - 55
  ELSE IF u >= 97 /\ u <= 102 THEN u - 87
  ELSE -1

(* ParseHexOctet(string, position): the octet written by the two code      *)
(* units at k and k + 1 (counted from 1), or -1 when they are not both    *)
(* hexadecimal digits.                                                     *)
ParseHexOctet(s, k) ==
  IF k + 1 > Len(s) THEN -1
  ELSE IF HexValue(s[k]) < 0 \/ HexValue(s[k + 1]) < 0 THEN -1
  ELSE 16 * HexValue(s[k]) + HexValue(s[k + 1])

(* The number of leading 1 bits of an octet. *)
LeadingOnes(b) ==
  IF b < 128 THEN 0
  ELSE IF b < 192 THEN 1
  ELSE IF b < 224 THEN 2
  ELSE IF b < 240 THEN 3
  ELSE IF b < 248 THEN 4
  ELSE 5

IsContinuation(b) == b >= 128 /\ b <= 191

(* The code point a sequence of 2 to 4 octets encodes in UTF-8, or -1 when *)
(* the octets are not the valid (shortest-form, non-surrogate, at most     *)
(* U+10FFFF) encoding of a code point.                                     *)
UTF8Decode(os) ==
  LET n == Len(os) IN
  IF \E j \in 2..n : ~IsContinuation(os[j]) THEN -1
  ELSE IF n = 2
  THEN LET cp == (os[1] - 192) * 64 + (os[2] - 128) IN
       IF cp < 128 THEN -1 ELSE cp
  ELSE IF n = 3
  THEN LET cp == (os[1] - 224) * 4096 + (os[2] - 128) * 64 + (os[3] - 128) IN
       IF cp < 2048 \/ (cp >= 55296 /\ cp <= 57343) THEN -1 ELSE cp
  ELSE LET cp == (os[1] - 240) * 262144 + (os[2] - 128) * 4096
                 + (os[3] - 128) * 64 + (os[4] - 128) IN
       IF cp < 65536 \/ cp > 1114111 THEN -1 ELSE cp

(* decodeURIComponent: ECMAScript Decode(string, empty reserved set).  k   *)
(* counts from 1 and is the position of the next code unit to read.  The   *)
(* result is ok with the text, or not ok (URIError).                       *)
RECURSIVE DecodeFrom(_, _)
DecodeFrom(s, k) ==
  IF k > Len(s) THEN [ok |-> TRUE, val |-> <<>>]
  ELSE IF s[k] # 37
  THEN LET rest == DecodeFrom(s, k + 1) IN
       [ok |-> rest.ok, val |-> <<s[k]>> \o rest.val]
  ELSE IF k + 2 > Len(s) THEN [ok |-> FALSE, val |-> <<>>]
  ELSE LET B == ParseHexOctet(s, k + 1)
           n == LeadingOnes(B)
       IN
       IF B < 0 THEN [ok |-> FALSE, val |-> <<>>]
       ELSE IF n = 0
       THEN LET rest == DecodeFrom(s, k + 3) IN
            [ok |-> rest.ok, val |-> <<B>> \o rest.val]
       ELSE IF n = 1 \/ n > 4 THEN [ok |-> FALSE, val |-> <<>>]
       ELSE IF k + 3 * n - 1 > Len(s) THEN [ok |-> FALSE, val |-> <<>>]
       ELSE IF \E j \in 1..(n - 1) :
                 \/ s[k + 3 * j] # 37
                 \/ ParseHexOctet(s, k + 3 * j + 1) < 0
       THEN [ok |-> FALSE, val |-> <<>>]
       ELSE LET Octets == [j \in 1..n |-> ParseHexOctet(s, k + 3 * (j - 1) + 1)]
                V == UTF8Decode(Octets)
            IN
            IF V < 0 THEN [ok |-> FALSE, val |-> <<>>]
            ELSE LET rest == DecodeFrom(s, k + 3 * n) IN
                 [ok |-> rest.ok, val |-> UTF16EncodeCodePoint(V) \o rest.val]

decodeURIComponent(s) ==
  LET r == DecodeFrom(s, 1) IN
  IF r.ok THEN Return(r.val) ELSE Throw("URIError")

----------------------------------------------------------------------------
(* A JavaScript value passed as the first argument: typeof and, for a      *)
(* string, its code units.                                                 *)

StringValue(s) == [typeof |-> "string", chars |-> s]
NumberValue == [typeof |-> "number", chars |-> <<>>]
NullValue == [typeof |-> "object", chars |-> <<>>]
UndefinedValue == [typeof |-> "undefined", chars |-> <<>>]

(* Array.from(str): the string split by code points; a surrogate pair is   *)
(* one element of two code units, an unpaired surrogate an element of one. *)
RECURSIVE ArrayFrom(_, _)
ArrayFrom(s, k) ==
  IF k > Len(s) THEN <<>>
  ELSE LET n == CodePointAt(s, k).count IN
       <<SubSeq(s, k, k + n - 1)>> \o ArrayFrom(s, k + n)

(* /[A-Za-z0-9\-_]/.test(char): some code unit of char is in the class.    *)
StrictSafeTest(char) ==
  \E i \in DOMAIN char : IsAlnum(char[i]) \/ char[i] = 45 \/ char[i] = 95

Includes(list, x) == \E i \in DOMAIN list : list[i] = x

(* Mutant: the escape written for '!' has its digits transposed. *)
Rfc3986Replace_Typo(s) ==
  LET r1 == ReplaceAll(s, Str(<<"!">>), Str(<<"%", "1", "2">>))
      r2 == ReplaceAll(r1, Str(<<"'">>), Str(<<"%", "2", "7">>))
      r3 == ReplaceAll(r2, Str(<<"(">>), Str(<<"%", "2", "8">>))
      r4 == ReplaceAll(r3, Str(<<")">>), Str(<<"%", "2", "9">>))
  IN ReplaceAll(r4, Str(<<"*">>), Str(<<"%", "2", "A">>))

(* Mutant: the replacement of '!' is missing. *)
Rfc3986Replace_NoBang(s) ==
  LET r2 == ReplaceAll(s, Str(<<"'">>), Str(<<"%", "2", "7">>))
      r3 == ReplaceAll(r2, Str(<<"(">>), Str(<<"%", "2", "8">>))
      r4 == ReplaceAll(r3, Str(<<")">>), Str(<<"%", "2", "9">>))
  IN ReplaceAll(r4, Str(<<"*">>), Str(<<"%", "2", "A">>))

(* The five replacements of index.ts lines 84-88 and 97-101. *)
Rfc3986Replace(s) ==
  LET r1 == ReplaceAll(s, Str(<<"!">>), Str(<<"%", "2", "1">>))
      r2 == ReplaceAll(r1, Str(<<"'">>), Str(<<"%", "2", "7">>))
      r3 == ReplaceAll(r2, Str(<<"(">>), Str(<<"%", "2", "8">>))
      r4 == ReplaceAll(r3, Str(<<")">>), Str(<<"%", "2", "9">>))
  IN ReplaceAll(r4, Str(<<"*">>), Str(<<"%", "2", "A">>))

(* The callback of the map over Array.from(str) in strict mode. *)
StrictChar(char, allowedChars) ==
  IF StrictSafeTest(char) \/ Includes(allowedChars, char)
  THEN Return(char)
  ELSE LET charEncoded == encodeURIComponent(char) IN
       IF charEncoded.kind # "return" THEN charEncoded
       ELSE Return(Rfc3986Replace(charEncoded.val))

(* Mutant: the text is split into code units (str.split('')), not into     *)
(* code points.                                                            *)
StrictEncode_SplitUnits(s, allowedChars) ==
  LET chars == [i \in DOMAIN s |-> <<s[i]>>]
      parts == [i \in DOMAIN chars |-> StrictChar(chars[i], allowedChars)]
  IN IF \E i \in DOMAIN parts : parts[i].kind # "return"
     THEN Throw("URIError")
     ELSE Return(Flatten([i \in DOMAIN parts |-> parts[i].val]))

StrictEncode(s, allowedChars) ==
  LET chars == ArrayFrom(s, 1)
      parts == [i \in DOMAIN chars |-> StrictChar(chars[i], allowedChars)]
  IN IF \E i \in DOMAIN parts : parts[i].kind # "return"
     THEN Throw("URIError")
     ELSE Return(Flatten([i \in DOMAIN parts |-> parts[i].val]))

(* Mutant: an encoded '+' (%2B) is turned into '+' as well. *)
PlusForSpaceReplace_AnyPlus(s) ==
  ReplaceAll(ReplaceAll(s, Str(<<"%", "2", "0">>), Str(<<"+">>)),
             Str(<<"%", "2", "B">>), Str(<<"+">>))

PlusForSpaceReplace(s) == ReplaceAll(s, Str(<<"%", "2", "0">>), Str(<<"+">>))

DefaultEncodeOptions ==
  [plusForSpace |-> FALSE, strict |-> FALSE, allowedChars |-> <<>>]

(* encode after its type check: lines 66-109. *)
EncodeText(s, options) ==
  LET first == encodeURIComponent(s) IN
  IF first.kind # "return" THEN first
  ELSE LET encoded == IF options.strict
                      THEN StrictEncode(s, options.allowedChars)
                      ELSE Return(Rfc3986Replace(first.val))
       IN
       IF encoded.kind # "return" THEN encoded
       ELSE IF options.plusForSpace
       THEN Return(PlusForSpaceReplace(encoded.val))
       ELSE encoded

(* String(value) of the non-string arguments: 123, null, undefined. *)
ToStringCoerced(v) ==
  CASE v.typeof = "string" -> v.chars
    [] v.typeof = "number" -> Str(<<"1", "2", "3">>)
    [] v.typeof = "object" -> Str(<<"n", "u", "l", "l">>)
    [] v.typeof = "undefined" -> Str(<<"u", "n", "d", "e", "f", "i", "n", "e", "d">>)

(* Mutant: no typeof guard, the argument is coerced to a string. *)
encode_NoTypeCheck(str, options) == EncodeText(ToStringCoerced(str), options)

(* encode(str, options) *)
encode(str, options) ==
  IF str.typeof # "string" THEN Throw("TypeError")
  ELSE EncodeText(str.chars, options)

DefaultDecodeOptions == [plusAsSpace |-> FALSE]

PlusAsSpaceReplace(s) == ReplaceAll(s, Str(<<"+">>), Str(<<" ">>))

(* Mutant: no try/catch, the URIError of decodeURIComponent propagates. *)
decode_NoCatch(str, options) ==
  IF str.typeof # "string" THEN [out |-> Throw("TypeError"), warned |-> 0]
  ELSE [out |-> decodeURIComponent(IF options.plusAsSpace
                                   THEN PlusAsSpaceReplace(str.chars)
                                   ELSE str.chars),
        warned |-> 0]

(* Mutant: the catch block returns the text after the plus substitution. *)
decode_ReturnsDecoded(str, options) ==
  IF str.typeof # "string" THEN [out |-> Throw("TypeError"), warned |-> 0]
  ELSE LET decoded == IF options.plusAsSpace
                      THEN PlusAsSpaceReplace(str.chars)
                      ELSE str.chars
           r == decodeURIComponent(decoded)
       IN
       IF r.kind = "return" THEN [out |-> r, warned |-> 0]
       ELSE [out |-> Return(decoded), warned |-> 1]

(* Every %XX of s replaced by the code unit XX, any other '%' kept. *)
RECURSIVE UnescapeFrom(_, _)
UnescapeFrom(s, k) ==
  IF k > Len(s) THEN <<>>
  ELSE IF s[k] = 37 /\ ParseHexOctet(s, k + 1) >= 0
  THEN <<ParseHexOctet(s, k + 1)>> \o UnescapeFrom(s, k + 3)
  ELSE <<s[k]>> \o UnescapeFrom(s, k + 1)

(* Mutant: the catch block decodes what it can instead of giving up. *)
decode_BestEffort(str, options) ==
  IF str.typeof # "string" THEN [out |-> Throw("TypeError"), warned |-> 0]
  ELSE LET decoded == IF options.plusAsSpace
                      THEN PlusAsSpaceReplace(str.chars)
                      ELSE str.chars
           r == decodeURIComponent(decoded)
       IN
       IF r.kind = "return" THEN [out |-> r, warned |-> 0]
       ELSE [out |-> Return(UnescapeFrom(str.chars, 1)), warned |-> 1]

(* Mutant: console.warn is called on every decode. *)
decode_WarnsAlways(str, options) ==
  IF str.typeof # "string" THEN [out |-> Throw("TypeError"), warned |-> 0]
  ELSE LET decoded == IF options.plusAsSpace
                      THEN PlusAsSpaceReplace(str.chars)
                      ELSE str.chars
           r == decodeURIComponent(decoded)
       IN
       IF r.kind = "return" THEN [out |-> r, warned |-> 1]
       ELSE [out |-> Return(str.chars), warned |-> 1]

(* Mutant: '+' is turned into a space after the unescaping, not before. *)
decode_PlusAfter(str, options) ==
  IF str.typeof # "string" THEN [out |-> Throw("TypeError"), warned |-> 0]
  ELSE LET r == decodeURIComponent(str.chars) IN
       IF r.kind = "return"
       THEN [out |-> IF options.plusAsSpace
                     THEN Return(PlusAsSpaceReplace(r.val))
                     ELSE r,
             warned |-> 0]
       ELSE [out |-> Return(str.chars), warned |-> 1]

(* decode(str, options): the outcome and the number of console.warn calls. *)
decode(str, options) ==
  IF str.typeof # "string" THEN [out |-> Throw("TypeError"), warned |-> 0]
  ELSE LET decoded == IF options.plusAsSpace
                      THEN PlusAsSpaceReplace(str.chars)
                      ELSE str.chars
           r == decodeURIComponent(decoded)
       IN
       IF r.kind = "return" THEN [out |-> r, warned |-> 0]
       ELSE [out |-> Return(str.chars), warned |-> 1]

----------------------------------------------------------------------------
(* new URL(url): the WHATWG URL parser without a base URL, for the http    *)
(* scheme with a host of lowercase letters, an optional port and a path    *)
(* without dots (written '.' or '%2e') or backslashes.  Any other text     *)
(* that has a scheme is reported as "unmodelled"; text without a scheme    *)
(* fails to parse, as it does in the parser.                               *)

ReplacementChar == <<65533>>

(* Conversion to a USVString: an unpaired surrogate becomes U+FFFD. *)
RECURSIVE ToUSVString(_, _)
ToUSVString(s, k) ==
  IF k > Len(s) THEN <<>>
  ELSE LET c == CodePointAt(s, k) IN
       (IF c.unpaired THEN ReplacementChar ELSE SubSeq(s, k, k + c.count - 1))
       \o ToUSVString(s, k + c.count)

IsC0OrSpace(u) == u <= 32

RECURSIVE StripLeading(_)
StripLeading(s) ==
  IF s # <<>> /\ IsC0OrSpace(Head(s)) THEN StripLeading(Tail(s)) ELSE s

RECURSIVE StripTrailing(_)
StripTrailing(s) ==
  IF s # <<>> /\ IsC0OrSpace(s[Len(s)])
  THEN StripTrailing(SubSeq(s, 1, Len(s) - 1))
  ELSE s

IsTabOrNewline(u) == u \in {9, 10, 13}

RemoveTabsAndNewlines(s) == SelectSeq(s, LAMBDA u : ~IsTabOrNewline(u))

IsAsciiAlpha(u) == (u >= 65 /\ u <= 90) \/ (u >= 97 /\ u <= 122)
IsAsciiDigit(u) == u >= 48 /\ u <= 57

ToLowerAscii(s) == [i \in DOMAIN s |-> IF s[i] >= 65 /\ s[i] <= 90 THEN s[i] + 32 ELSE s[i]]

(* The position of the first code unit of s at or after k that is in stop *)
(* (ScanTo) or is not in pass (ScanWhile), or Len(s) + 1.                  *)
RECURSIVE ScanTo(_, _, _)
ScanTo(s, k, stop) ==
  IF k > Len(s) THEN k
  ELSE IF s[k] \in stop THEN k
  ELSE ScanTo(s, k + 1, stop)

RECURSIVE ScanWhile(_, _, _)
ScanWhile(s, k, pass) ==
  IF k > Len(s) THEN k
  ELSE IF s[k] \notin pass THEN k
  ELSE ScanWhile(s, k + 1, pass)

SchemeChars == (48..57) \cup (65..90) \cup (97..122) \cup {43, 45, 46}

(* Percent-encode sets of the URL standard. *)
InC0ControlSet(u) == u < 32 \/ u > 126
InFragmentSet(u) == InC0ControlSet(u) \/ u \in {32, 34, 60, 62, 96}
InQuerySet(u) == InC0ControlSet(u) \/ u \in {32, 34, 35, 60, 62}
InSpecialQuerySet(u) == InQuerySet(u) \/ u = 39
InPathSet(u) == InQuerySet(u) \/ u \in {63, 94, 96, 123, 125}

InEncodeSet(set, u) ==
  CASE set = "fragment" -> InFragmentSet(u)
    [] set = "special-query" -> InSpecialQuerySet(u)
    [] set = "path" -> InPathSet(u)

(* UTF-8 percent-encode the code points of a USVString that are in the set *)
RECURSIVE UrlPercentEncode(_, _, _)
UrlPercentEncode(s, k, set) ==
  IF k > Len(s) THEN <<>>
  ELSE LET c == CodePointAt(s, k) IN
       (IF InEncodeSet(set, c.cp) THEN PercentOctets(UTF8Octets(c.cp))
        ELSE SubSeq(s, k, k + c.count - 1))
       \o UrlPercentEncode(s, k + c.count, set)

RECURSIVE DigitsValue(_, _)
DigitsValue(s, acc) ==
  IF s = <<>> THEN acc
  ELSE IF acc > 65535 THEN acc
  ELSE DigitsValue(Tail(s), 10 * acc + (Head(s) - 48))

RECURSIVE NatToString(_)
NatToString(n) ==
  IF n < 10 THEN <<48 + n>> ELSE NatToString(n \div 10) \o <<48 + (n % 10)>>

LastIndexOf(s, u) ==
  IF \E i \in DOMAIN s : s[i] = u
  THEN CHOOSE i \in DOMAIN s : s[i] = u /\ \A j \in (i + 1)..Len(s) : s[j] # u
  ELSE 0

FirstIndexOf(s, u) ==
  IF \E i \in DOMAIN s : s[i] = u
  THEN CHOOSE i \in DOMAIN s : s[i] = u /\ \A j \in 1..(i - 1) : s[j] # u
  ELSE 0

UrlFailure == [status |-> "failure"]
UrlUnmodelled == [status |-> "unmodelled"]

(* The URL record from the text s after the path: pathEnd is the position *)
(* of the '?' or '#' that ends the path, queryEnd that of the '#' that     *)
(* ends the query (Len(s) + 1 when absent).                                *)
UrlRecord(s, host, pathname, pathEnd, hasQuery, queryEnd) ==
  [status |-> "ok",
   protocol |-> Str(<<"h", "t", "t", "p", ":">>),
   host |-> host,
   pathname |-> pathname,
   hasQuery |-> hasQuery,
   query |-> IF hasQuery
             THEN UrlPercentEncode(SubSeq(s, pathEnd + 1, queryEnd - 1), 1,
                                   "special-query")
             ELSE <<>>,
   hash |-> IF queryEnd + 1 <= Len(s)
            THEN <<35>> \o UrlPercentEncode(SubSeq(s, queryEnd + 1, Len(s)), 1,
                                            "fragment")
            ELSE <<>>]

(* Query state: the query runs from after the '?' to the '#' or the end. *)
ParseQuery(s, host, pathname, pathEnd) ==
  IF pathEnd <= Len(s) /\ s[pathEnd] = 63
  THEN UrlRecord(s, host, pathname, pathEnd, TRUE, ScanTo(s, pathEnd + 1, {35}))
  ELSE UrlRecord(s, host, pathname, pathEnd, FALSE, pathEnd)

(* Path state: rawPath runs from the end of the authority to '?' or '#';   *)
(* a '%' of the path is kept as it is.                                     *)
ParsePathText(s, host, rawPath, pathEnd) ==
  IF \/ \E i \in DOMAIN rawPath : rawPath[i] \in {46, 92}
     \/ \E i \in DOMAIN rawPath :
          StartsWithAt(rawPath, i, <<37, 50>>)
          /\ i + 2 <= Len(rawPath) /\ rawPath[i + 2] \in {69, 101}
  THEN UrlUnmodelled
  ELSE ParseQuery(s, host,
                  <<47>> \o UrlPercentEncode(IF rawPath # <<>> THEN Tail(rawPath)
                                             ELSE <<>>, 1, "path"),
                  pathEnd)

ParsePathTo(s, host, authEnd, pathEnd) ==
  ParsePathText(s, host, SubSeq(s, authEnd, pathEnd - 1), pathEnd)

ParsePath(s, host, authEnd) ==
  ParsePathTo(s, host, authEnd, ScanTo(s, authEnd, {63, 35}))

(* Host state and port state. *)
ParseHostPort(s, authEnd, hostname, portText) ==
  IF hostname = <<>> THEN UrlFailure
  ELSE IF \E i \in DOMAIN portText : ~IsAsciiDigit(portText[i]) THEN UrlFailure
  ELSE IF DigitsValue(portText, 0) > 65535 THEN UrlFailure
  ELSE IF \E i \in DOMAIN hostname : ~(hostname[i] >= 97 /\ hostname[i] <= 122)
  THEN UrlUnmodelled
  ELSE ParsePath(s,
                 hostname \o
                 (IF portText = <<>> \/ DigitsValue(portText, 0) = 80 THEN <<>>
                  ELSE <<58>> \o NatToString(DigitsValue(portText, 0))),
                 authEnd)

SplitHostPort(s, authEnd, hostport, pcolon) ==
  IF pcolon = 0 THEN ParseHostPort(s, authEnd, hostport, <<>>)
  ELSE ParseHostPort(s, authEnd, SubSeq(hostport, 1, pcolon - 1),
                     SubSeq(hostport, pcolon + 1, Len(hostport)))

ParseHost(s, authEnd, hostport) ==
  SplitHostPort(s, authEnd, hostport, FirstIndexOf(hostport, 58))

(* Authority state: what precedes the last '@' is the userinfo. *)
ParseAuthorityText(s, authEnd, authority) ==
  ParseHost(s, authEnd,
            SubSeq(authority, LastIndexOf(authority, 64) + 1, Len(authority)))

ParseAuthorityTo(s, authStart, authEnd) ==
  ParseAuthorityText(s, authEnd, SubSeq(s, authStart, authEnd - 1))

ParseAuthority(s, authStart) ==
  ParseAuthorityTo(s, authStart, ScanTo(s, authStart, {47, 63, 35, 92}))

(* Scheme state; colon is the position after the scheme characters. *)
ParseSchemeTo(s, colon) ==
  IF colon > Len(s) THEN UrlFailure
  ELSE IF s[colon] # 58 THEN UrlFailure
  ELSE IF ToLowerAscii(SubSeq(s, 1, colon - 1)) # Str(<<"h", "t", "t", "p">>)
  THEN UrlUnmodelled
  ELSE ParseAuthority(s, ScanWhile(s, colon + 1, {47, 92}))

ParseScheme(s) ==
  IF s = <<>> THEN UrlFailure
  ELSE IF ~IsAsciiAlpha(s[1]) THEN UrlFailure
  ELSE ParseSchemeTo(s, ScanWhile(s, 1, SchemeChars))

(* The components encodeUrl reads: protocol, host, pathname, the query and *)
(* hash.                                                                   *)
ParseURL(url) ==
  ParseScheme(RemoveTabsAndNewlines(StripTrailing(StripLeading(ToUSVString(url, 1)))))

(* Percent-decoding of the URL standard: bytes; a '%' that is not followed *)
(* by two hexadecimal digits stays.                                        *)
RECURSIVE UrlPercentDecode(_, _)
UrlPercentDecode(s, k) ==
  IF k > Len(s) THEN <<>>
  ELSE IF s[k] = 37 /\ ParseHexOctet(s, k + 1) >= 0
  THEN <<ParseHexOctet(s, k + 1)>> \o UrlPercentDecode(s, k + 3)
  ELSE <<s[k]>> \o UrlPercentDecode(s, k + 1)

(* "UTF-8 decode without BOM" of the Encoding standard: ill-formed bytes   *)
(* become U+FFFD.  needed, seen, cp, lower and upper are the decoder's     *)
(* state.                                                                  *)
RECURSIVE Utf8DecodeLossy(_, _, _, _, _, _, _)
Utf8DecodeLossy(bs, k, needed, seen, cp, lower, upper) ==
  IF k > Len(bs)
  THEN IF needed # 0 THEN ReplacementChar ELSE <<>>
  ELSE LET b == bs[k] IN
  IF needed = 0
  THEN IF b <= 127
       THEN <<b>> \o Utf8DecodeLossy(bs, k + 1, 0, 0, 0, 128, 191)
       ELSE IF b >= 194 /\ b <= 223
       THEN Utf8DecodeLossy(bs, k + 1, 1, 0, b - 192, 128, 191)
       ELSE IF b >= 224 /\ b <= 239
       THEN Utf8DecodeLossy(bs, k + 1, 2, 0, b - 224,
                            IF b = 224 THEN 160 ELSE 128,
                            IF b = 237 THEN 159 ELSE 191)
       ELSE IF b >= 240 /\ b <= 244
       THEN Utf8DecodeLossy(bs, k + 1, 3, 0, b - 240,
                            IF b = 240 THEN 144 ELSE 128,
                            IF b = 244 THEN 143 ELSE 191)
       ELSE ReplacementChar \o Utf8DecodeLossy(bs, k + 1, 0, 0, 0, 128, 191)
  ELSE IF b < lower \/ b > upper
       THEN ReplacementChar \o Utf8DecodeLossy(bs, k, 0, 0, 0, 128, 191)
       ELSE IF seen + 1 # needed
       THEN Utf8DecodeLossy(bs, k + 1, needed, seen + 1, cp * 64 + (b - 128), 128, 191)
       ELSE UTF16EncodeCodePoint(cp * 64 + (b - 128))
            \o Utf8DecodeLossy(bs, k + 1, 0, 0, 0, 128, 191)

(* Mutant: '+' becomes a space but the percent escapes are left as they are. *)
FormDecode_NoPercent(s) ==
  ReplaceAll(s, <<43>>, <<32>>)

FormDecode(s) ==
  Utf8DecodeLossy(UrlPercentDecode(ReplaceAll(s, <<43>>, <<32>>), 1),
                  1, 0, 0, 0, 128, 191)

(* urlObj.searchParams: the application/x-www-form-urlencoded parser on    *)
(* the query: a sequence of [key, value] in the order of the query.        *)
ParamAt(piece, eq) ==
  [key |-> FormDecode(IF eq = 0 THEN piece ELSE SubSeq(piece, 1, eq - 1)),
   value |-> FormDecode(IF eq = 0 THEN <<>>
                        ELSE SubSeq(piece, eq + 1, Len(piece)))]

ParamsOf(pieces) ==
  [i \in DOMAIN pieces |-> ParamAt(pieces[i], FirstIndexOf(pieces[i], 61))]

SearchParams(query) ==
  ParamsOf(SelectSeq(SplitAt(query, 38), LAMBDA x : x # <<>>))

RECURSIVE JoinWith(_, _)
JoinWith(parts, sep) ==
  IF parts = <<>> THEN <<>>
  ELSE IF Len(parts) = 1 THEN parts[1]
  ELSE parts[1] \o sep \o JoinWith(Tail(parts), sep)

(* Mutant: the value is pushed as it is, without encode. *)
EncodedParam_RawValue(param) ==
  encode(StringValue(param.key), DefaultEncodeOptions).val
  \o <<61>>
  \o param.value

(* One entry of newParams: `${encode(key)}=${encode(value)}` *)
EncodedParam(param) ==
  encode(StringValue(param.key), DefaultEncodeOptions).val
  \o <<61>>
  \o encode(StringValue(param.value), DefaultEncodeOptions).val

EncodedParams(params) == [i \in DOMAIN params |-> EncodedParam(params[i])]

QueryText(newParams) ==
  IF Len(newParams) > 0 THEN <<63>> \o JoinWith(newParams, <<38>>) ELSE <<>>

(* Mutant: the raw fragment is encoded without being decoded first. *)
HashFrom_NoDecode(rawHash, decodedHash) ==
  <<35>> \o encode(StringValue(rawHash), DefaultEncodeOptions).val

(* Mutant: when decoding fails the raw fragment is emitted as it is. *)
HashFrom_RawOnFailure(rawHash, decodedHash) ==
  IF decodedHash.kind = "return"
  THEN <<35>> \o encode(StringValue(decodedHash.val), DefaultEncodeOptions).val
  ELSE <<35>> \o rawHash

(* The hash of the result from the raw fragment and its decoding. *)
HashFrom(rawHash, decodedHash) ==
  IF decodedHash.kind = "return"
  THEN <<35>> \o encode(StringValue(decodedHash.val), DefaultEncodeOptions).val
  ELSE <<35>> \o encode(StringValue(rawHash), DefaultEncodeOptions).val

HashText(hash) ==
  IF hash = <<>> THEN <<>> ELSE HashFrom(Tail(hash), decodeURIComponent(Tail(hash)))

(* Mutant: when parsing fails the text is returned as it is. *)
EncodeParsedUrl_ReturnsInput(url, urlObj) ==
  IF urlObj.status = "unmodelled" THEN [kind |-> "unmodelled", val |-> <<>>]
  ELSE IF urlObj.status = "failure" THEN Return(url.chars)
  ELSE Return(urlObj.protocol \o <<47, 47>> \o urlObj.host \o urlObj.pathname
              \o QueryText(EncodedParams(SearchParams(urlObj.query)))
              \o HashText(urlObj.hash))

(* Mutant: the parse error of new URL is not caught. *)
EncodeParsedUrl_NoCatch(url, urlObj) ==
  IF urlObj.status = "unmodelled" THEN [kind |-> "unmodelled", val |-> <<>>]
  ELSE IF urlObj.status = "failure" THEN Throw("TypeError")
  ELSE Return(urlObj.protocol \o <<47, 47>> \o urlObj.host \o urlObj.pathname
              \o QueryText(EncodedParams(SearchParams(urlObj.query)))
              \o HashText(urlObj.hash))

EncodeParsedUrl(url, urlObj) ==
  IF urlObj.status = "unmodelled" THEN [kind |-> "unmodelled", val |-> <<>>]
  ELSE IF urlObj.status = "failure" THEN encode(url, DefaultEncodeOptions)
  ELSE Return(urlObj.protocol \o <<47, 47>> \o urlObj.host \o urlObj.pathname
              \o QueryText(EncodedParams(SearchParams(urlObj.query)))
              \o HashText(urlObj.hash))

(* encodeUrl(url) *)
encodeUrl(url) ==
  IF url.typeof # "string" THEN Throw("TypeError")
  ELSE EncodeParsedUrl(url, ParseURL(url.chars))

----------------------------------------------------------------------------
(* Objects.  An ordinary object is the sequence of its own enumerable      *)
(* properties [key, value] in the order they were created; a property      *)
(* value is a string, a number (an integer here) or a boolean.             *)

NumberOf(n) == [typeof |-> "number", num |-> n]
BooleanOf(b) == [typeof |-> "boolean", bool |-> b]

(* String(value) for a string, an integer or a boolean. *)
String(value) ==
  CASE value.typeof = "string" -> value.chars
    [] value.typeof = "number" ->
         IF value.num < 0 THEN Str(<<"-">>) \o NatToString(0 - value.num)
         ELSE NatToString(value.num)
    [] value.typeof = "boolean" ->
         IF value.bool THEN Str(<<"t", "r", "u", "e">>)
         ELSE Str(<<"f", "a", "l", "s", "e">>)

(* An array index: the canonical decimal text of an integer below 2^32-1.  *)
(* Texts of more than nine digits are outside the keys drawn here.         *)
IsArrayIndex(key) ==
  /\ Len(key) >= 1
  /\ Len(key) <= 9
  /\ \A i \in DOMAIN key : IsAsciiDigit(key[i])
  /\ (Len(key) = 1 \/ key[1] # 48)

RECURSIVE IndexValue(_, _)
IndexValue(key, acc) ==
  IF key = <<>> THEN acc ELSE IndexValue(Tail(key), 10 * acc + (Head(key) - 48))

(* The entries whose keys are array indices, in ascending numeric order. *)
RECURSIVE IndexEntriesAscending(_)
IndexEntriesAscending(entries) ==
  IF entries = <<>> THEN <<>>
  ELSE LET least == CHOOSE i \in DOMAIN entries :
                      \A j \in DOMAIN entries :
                        IndexValue(entries[i].key, 0) <= IndexValue(entries[j].key, 0)
           rest == [j \in 1..(Len(entries) - 1) |->
                      IF j < least THEN entries[j] ELSE entries[j + 1]]
       IN <<entries[least]>> \o IndexEntriesAscending(rest)

(* Object.entries(obj): array-index keys in ascending order, then the      *)
(* other keys in the order they were created.                              *)
ObjectEntries(obj) ==
  IndexEntriesAscending(SelectSeq(obj, LAMBDA e : IsArrayIndex(e.key)))
  \o SelectSeq(obj, LAMBDA e : ~IsArrayIndex(e.key))

ProtoKey == Str(<<"_", "_", "p", "r", "o", "t", "o", "_", "_">>)

(* obj[key] = value on an object created by {} with a string value: the    *)
(* key "__proto__" reaches the setter of Object.prototype, which ignores a *)
(* value that is neither an object nor null; any other key sets the own    *)
(* property, creating it last if it is new.                                *)
PropertySet(obj, key, value) ==
  IF key = ProtoKey THEN obj
  ELSE IF \E i \in DOMAIN obj : obj[i].key = key
  THEN [i \in DOMAIN obj |->
          IF obj[i].key = key THEN [key |-> key, value |-> value] ELSE obj[i]]
  ELSE Append(obj, [key |-> key, value |-> value])

----------------------------------------------------------------------------
(* encodeQuery and decodeQuery *)

(* `${encodedKey}=${encodedValue}`; the exception of the first encode     *)
(* that raises is the outcome.                                             *)
EntryText(encodedKey, encodedValue) ==
  IF encodedKey.kind # "return" THEN encodedKey
  ELSE IF encodedValue.kind # "return" THEN encodedValue
  ELSE Return(encodedKey.val \o <<61>> \o encodedValue.val)

(* One element of the mapped array. *)
EncodedEntry(entry, options) ==
  EntryText(encode(StringValue(String(StringValue(entry.key))), options),
            encode(StringValue(String(entry.value)), options))

MappedFrom(first, rest) ==
  IF first.kind # "return" THEN first
  ELSE IF rest.kind # "return" THEN rest
  ELSE Return(<<first.val>> \o rest.val)

(* The mapped array, or the exception of the first entry that raises. *)
RECURSIVE EncodedEntries(_, _)
EncodedEntries(entries, options) ==
  IF entries = <<>> THEN Return(<<>>)
  ELSE MappedFrom(EncodedEntry(Head(entries), options),
                  EncodedEntries(Tail(entries), options))

(* .join('&') *)
JoinMapped(mapped) ==
  IF mapped.kind # "return" THEN mapped
  ELSE Return(JoinWith(mapped.val, <<38>>))

(* Mutant: the pairs are joined with ';'. *)
encodeQuery_Semicolon(params, options) ==
  LET mapped == EncodedEntries(ObjectEntries(params), options) IN
  IF mapped.kind # "return" THEN mapped
  ELSE Return(JoinWith(mapped.val, <<59>>))

(* encodeQuery(params, options) *)
encodeQuery(params, options) ==
  JoinMapped(EncodedEntries(ObjectEntries(params), options))

(* const [key, value = ''] = pair.split('=') *)
PairKey(pair) == SplitAt(pair, 61)[1]

PairValue(pair) ==
  LET parts == SplitAt(pair, 61) IN
  IF Len(parts) >= 2 THEN parts[2] ELSE <<>>

(* The loop over pairs: the object and the number of console.warn calls;   *)
(* decodedKey and decodedValue are the outcomes of decode on the first     *)
(* pair.                                                                   *)
RECURSIVE DecodePairs(_, _, _, _)
DecodePairsStep(pairs, options, result, warned, decodedKey, decodedValue) ==
  DecodePairs(Tail(pairs), options,
              PropertySet(result, decodedKey.out.val, decodedValue.out.val),
              warned + decodedKey.warned + decodedValue.warned)

DecodePairs(pairs, options, result, warned) ==
  IF pairs = <<>> THEN [out |-> Return(result), warned |-> warned]
  ELSE DecodePairsStep(pairs, options, result, warned,
                       decode(StringValue(PairKey(Head(pairs))), options),
                       decode(StringValue(PairValue(Head(pairs))), options))

(* Mutant: the leading '?' is kept. *)
CleanQuery_NoStrip(queryString) == queryString

CleanQuery(queryString) ==
  IF StartsWithAt(queryString, 1, <<63>>) THEN Tail(queryString) ELSE queryString

DecodeCleanQuery(cleanQuery, options) ==
  IF cleanQuery = <<>> THEN [out |-> Return(<<>>), warned |-> 0]
  ELSE DecodePairs(SplitAt(cleanQuery, 38), options, <<>>, 0)

(* decodeQuery(queryString, options); a value without startsWith raises    *)
(* TypeError.                                                              *)
decodeQuery(queryString, options) ==
  IF queryString.typeof # "string" THEN [out |-> Throw("TypeError"), warned |-> 0]
  ELSE DecodeCleanQuery(CleanQuery(queryString.chars), options)

----------------------------------------------------------------------------
(* The state machine: an argument is chosen, then the library is called.   *)

MaxLen == 3

(* Texts of up to MaxLen code units over a small alphabet (enough for a   *)
(* literal "%20" and for paired and unpaired surrogates), and texts of up  *)
(* to MaxWideLen code units over every class of character.                 *)
Alphabet ==
  {Ch(" "), Ch("+"), Ch("%"), Ch("2"), Ch("0"), Ch("."), Ch("!"),
   HiSurr[1], LoSurr[1]}

MaxWideLen == 2

WideAlphabet ==
  {Ch("A"), Ch("z"), Ch("5"), Ch("-"), Ch("_"), Ch("."), Ch("~"),
   Ch("!"), Ch("'"), Ch("("), Ch(")"), Ch("*"),
   Ch(" "), Ch("%"), Ch("+"), Ch("&"), Ch("="), Ch("/"), Ch("@"),
   EAcute[1], Euro[1], HiSurr[1], LoSurr[1]}

RECURSIVE StringsUpTo(_, _)
StringsUpTo(A, n) ==
  IF n = 0 THEN {<<>>}
  ELSE LET shorter == StringsUpTo(A, n - 1) IN
       shorter \cup {Append(s, c) : s \in {x \in shorter : Len(x) = n - 1}, c \in A}

NonStrings == {NumberValue, NullValue, UndefinedValue}

Inputs ==
  {StringValue(s) : s \in StringsUpTo(Alphabet, MaxLen)
                          \cup StringsUpTo(WideAlphabet, MaxWideLen)}
  \cup NonStrings

AllowedCharsChoices ==
  {<<>>, <<Str(<<"+">>)>>, <<Str(<<"%">>)>>,
   <<Str(<<".">>), Str(<<" ">>), HiSurr \o LoSurr>>}

EncodeOptionsSet ==
  [plusForSpace : BOOLEAN, strict : BOOLEAN, allowedChars : AllowedCharsChoices]

DecodeOptionsSet == [plusAsSpace : BOOLEAN]

NoResult == [kind |-> "none", val |-> <<>>]

Init ==
  /\ input \in Inputs
  /\ pc = "start"
  /\ eopts = DefaultEncodeOptions
  /\ dopts = DefaultDecodeOptions
  /\ enc = NoResult
  /\ dec = NoResult
  /\ urlenc = NoResult
  /\ urlagain = NoResult
  /\ qenc = NoResult
  /\ qdec = NoResult
  /\ warnings = 0

(* encode(input, options) *)
Encode ==
  /\ pc = "start"
  /\ \E o \in EncodeOptionsSet :
       /\ eopts' = o
       /\ enc' = encode(input, o)
  /\ pc' = "encoded"
  /\ UNCHANGED <<input, dopts, dec, urlenc, urlagain, qenc, qdec, warnings>>

(* decode(input, options) *)
Decode ==
  /\ pc = "start"
  /\ \E o \in DecodeOptionsSet :
       LET r == decode(input, o) IN
       /\ dopts' = o
       /\ dec' = r.out
       /\ warnings' = warnings + r.warned
  /\ pc' = "decoded"
  /\ UNCHANGED <<input, eopts, enc, urlenc, urlagain, qenc, qdec>>

(* decode(encode(input, eopts), options) *)
DecodeEncoded ==
  /\ pc = "encoded"
  /\ enc.kind = "return"
  /\ \E o \in DecodeOptionsSet :
       LET r == decode(StringValue(enc.val), o) IN
       /\ dopts' = o
       /\ dec' = r.out
       /\ warnings' = warnings + r.warned
  /\ pc' = "roundtrip"
  /\ UNCHANGED <<input, eopts, enc, urlenc, urlagain, qenc, qdec>>

(* encodeUrl(input) *)
EncodeUrl ==
  /\ pc = "start"
  /\ urlenc' = encodeUrl(input)
  /\ pc' = "urlencoded"
  /\ UNCHANGED <<input, eopts, dopts, enc, dec, qenc, qdec, warnings, urlagain>>

Next == Encode \/ Decode \/ DecodeEncoded \/ EncodeUrl

Spec == Init /\ [][Next]_vars

(* The decoder alone, on texts built from percent-escapes and literals.    *)

MaxTokens == 3

DecodeTokens ==
  {Str(<<"a">>), Str(<<"+">>), Str(<<"%">>), Str(<<"2">>), Str(<<"g">>),
   Str(<<"%", "2", "0">>), Str(<<"%", "2", "b">>),
   Str(<<"%", "C", "3">>), Str(<<"%", "A", "9">>), Str(<<"%", "C", "0">>),
   Str(<<"%", "8", "0">>), Str(<<"%", "E", "0">>), Str(<<"%", "A", "0">>),
   Str(<<"%", "E", "D">>), Str(<<"%", "F", "F">>)}

RECURSIVE TokenStrings(_, _)
TokenStrings(T, n) ==
  IF n = 0 THEN {<<>>}
  ELSE LET shorter == TokenStrings(T, n - 1) IN
       shorter \cup {s \o tk : s \in shorter, tk \in T}

DecodeInputs == {StringValue(s) : s \in TokenStrings(DecodeTokens, MaxTokens)}

InitDecode ==
  /\ input \in DecodeInputs \cup NonStrings
  /\ pc = "start"
  /\ eopts = DefaultEncodeOptions
  /\ dopts = DefaultDecodeOptions
  /\ enc = NoResult
  /\ dec = NoResult
  /\ urlenc = NoResult
  /\ urlagain = NoResult
  /\ qenc = NoResult
  /\ qdec = NoResult
  /\ warnings = 0

NextDecode == Decode

SpecDecode == InitDecode /\ [][NextDecode]_vars

(* encodeQuery and decodeQuery(encodeQuery(...)) on small objects.         *)

MaxEntries == 2

QueryKeys ==
  {<<>>, Str(<<"b">>), Str(<<"1">>), Str(<<"&", "=", "?", "#">>),
   ProtoKey}

QueryValues ==
  {StringValue(<<>>), StringValue(Str(<<"=", "&", "%", "+", " ">>) \o EAcute),
   StringValue(HiSurr), NumberOf(25), BooleanOf(TRUE)}

RECURSIVE EntriesUpTo(_)
EntriesUpTo(n) ==
  IF n = 0 THEN {<<>>}
  ELSE LET shorter == EntriesUpTo(n - 1) IN
       shorter \cup
       {Append(obj, [key |-> k, value |-> v]) :
          obj \in {x \in shorter : Len(x) = n - 1},
          k \in QueryKeys, v \in QueryValues}

(* Objects: no key twice. *)
QueryMaps ==
  {obj \in EntriesUpTo(MaxEntries) :
     \A i, j \in DOMAIN obj : i # j => obj[i].key # obj[j].key}

ObjectValue(obj) == [typeof |-> "object", entries |-> obj]

IsObjectValue(v) == "entries" \in DOMAIN v

QueryEncodeOptions ==
  {o \in EncodeOptionsSet :
     o.allowedChars = <<>> /\ ~(o.plusForSpace /\ o.strict)}

InitQuery ==
  /\ input \in {ObjectValue(obj) : obj \in QueryMaps}
  /\ pc = "start"
  /\ eopts = DefaultEncodeOptions
  /\ dopts = DefaultDecodeOptions
  /\ enc = NoResult
  /\ dec = NoResult
  /\ urlenc = NoResult
  /\ urlagain = NoResult
  /\ qenc = NoResult
  /\ qdec = NoResult
  /\ warnings = 0

(* encodeQuery(input, options) *)
EncodeQuery ==
  /\ pc = "start"
  /\ IsObjectValue(input)
  /\ \E o \in QueryEncodeOptions :
       /\ eopts' = o
       /\ qenc' = encodeQuery(input.entries, o)
  /\ pc' = "qencoded"
  /\ UNCHANGED <<input, dopts, enc, dec, urlenc, urlagain, qdec, warnings>>

(* decodeQuery(encodeQuery(input, eopts), options) *)
DecodeEncodedQuery ==
  /\ pc = "qencoded"
  /\ qenc.kind = "return"
  /\ \E o \in DecodeOptionsSet :
       LET r == decodeQuery(StringValue(qenc.val), o) IN
       /\ dopts' = o
       /\ qdec' = r.out
       /\ warnings' = warnings + r.warned
  /\ pc' = "qroundtrip"
  /\ UNCHANGED <<input, eopts, enc, dec, urlenc, urlagain, qenc>>

NextQuery == EncodeQuery \/ DecodeEncodedQuery

SpecQuery == InitQuery /\ [][NextQuery]_vars

(* decodeQuery alone, on query strings built from tokens.                  *)

MaxQueryTokens == 4

QueryTokens ==
  {Str(<<"a">>), Str(<<"%", "6", "1">>), Str(<<"=", "1">>), Str(<<"=">>),
   Str(<<"&">>), Str(<<"?">>), Str(<<"+">>), Str(<<"%">>), ProtoKey}

QueryStringInputs ==
  {StringValue(s) : s \in TokenStrings(QueryTokens, MaxQueryTokens)}

InitDecodeQuery ==
  /\ input \in QueryStringInputs \cup NonStrings
  /\ pc = "start"
  /\ eopts = DefaultEncodeOptions
  /\ dopts = DefaultDecodeOptions
  /\ enc = NoResult
  /\ dec = NoResult
  /\ urlenc = NoResult
  /\ urlagain = NoResult
  /\ qenc = NoResult
  /\ qdec = NoResult
  /\ warnings = 0

(* decodeQuery(input, options) *)
DecodeQuery ==
  /\ pc = "start"
  /\ ~IsObjectValue(input)
  /\ \E o \in DecodeOptionsSet :
       LET r == decodeQuery(input, o) IN
       /\ dopts' = o
       /\ qdec' = r.out
       /\ warnings' = warnings + r.warned
  /\ pc' = "qdecoded"
  /\ UNCHANGED <<input, eopts, enc, dec, urlenc, urlagain, qenc>>

NextDecodeQuery == DecodeQuery

SpecDecodeQuery == InitDecodeQuery /\ [][NextDecodeQuery]_vars

(* encodeUrl alone, on http URLs with a query and a fragment.              *)

MaxUrlPart == 3

UrlBases ==
  {Str(<<"h", "t", "t", "p", ":", "/", "/", "h">>),
   Str(<<"h", "t", "t", "p", ":", "/", "/", "h", ":", "8", "/", "p">>),
   Str(<<"h", "t", "t", "p", ":", "/", "/", "u", "@", "h", ":", "8", "0", "/", "p", " ", "q">>)}

UrlQueryTokens ==
  {Str(<<"a">>), Str(<<"=">>), Str(<<"&">>), Str(<<" ">>), Str(<<"+">>),
   Str(<<"%", "2", "6">>), Str(<<"'">>)}

UrlFragmentTokens ==
  {Str(<<"a">>), Str(<<" ">>), Str(<<"%">>), Str(<<"%", "2", "0">>),
   Str(<<"%", "C", "3">>), Str(<<"%", "A", "9">>), HiSurr}

(* Up to MaxUrlPart tokens after the '?' and after the '#'. *)
UrlQueries ==
  {<<>>} \cup {Str(<<"?">>) \o q : q \in TokenStrings(UrlQueryTokens, MaxUrlPart)}

UrlFragments ==
  {<<>>} \cup {Str(<<"#">>) \o f : f \in TokenStrings(UrlFragmentTokens, MaxUrlPart)}

(* Every query with a fixed fragment, every fragment with a fixed query,   *)
(* and neither.                                                            *)
QueryTails == {q \o Str(<<"#", "a", " ", "b">>) : q \in UrlQueries}

UrlTails ==
  {<<>>} \cup QueryTails
  \cup {Str(<<"?", "a", "=", " ">>) \o f : f \in UrlFragments}

(* Text that is not a URL: relative references, and an http URL without a  *)
(* host.                                                                   *)
RelativeInputs ==
  {StringValue(Str(<<"/", "p">>) \o tl) : tl \in QueryTails \cup {<<>>}}
  \cup {StringValue(Str(<<"h", "t", "t", "p", ":", "/", "/", ":", "8", "/", "p",
                          "?", "a", "=", " ", "b">>))}

UrlInputs ==
  {StringValue(b \o tl) : b \in UrlBases, tl \in UrlTails} \cup RelativeInputs

InitUrl ==
  /\ input \in UrlInputs \cup NonStrings
  /\ pc = "start"
  /\ eopts = DefaultEncodeOptions
  /\ dopts = DefaultDecodeOptions
  /\ enc = NoResult
  /\ dec = NoResult
  /\ urlenc = NoResult
  /\ urlagain = NoResult
  /\ qenc = NoResult
  /\ qdec = NoResult
  /\ warnings = 0

(* encodeUrl(encodeUrl(input)) *)
EncodeUrlAgain ==
  /\ pc = "urlencoded"
  /\ urlenc.kind = "return"
  /\ urlagain' = encodeUrl(StringValue(urlenc.val))
  /\ pc' = "urlagain"
  /\ UNCHANGED <<input, eopts, dopts, enc, dec, urlenc, qenc, qdec, warnings>>

NextUrl == EncodeUrl \/ EncodeUrlAgain

SpecUrl == InitUrl /\ [][NextUrl]_vars

----------------------------------------------------------------------------
(* Properties *)

(* Every text the specifications draw is within the modelled part of the   *)
(* URL parser.                                                             *)
UrlInputsModelled == urlenc.kind # "unmodelled" /\ urlagain.kind # "unmodelled"

IsString(v) == v.typeof = "string"

(* No unpaired surrogate: every high surrogate is followed by a low one    *)
(* and every low surrogate preceded by a high one.                         *)
WellFormed(s) ==
  \A i \in DOMAIN s :
    /\ IsHighSurrogate(s[i]) => (i < Len(s) /\ IsLowSurrogate(s[i + 1]))
    /\ IsLowSurrogate(s[i]) => (i > 1 /\ IsHighSurrogate(s[i - 1]))

(* C1: round trip under default options: for every text t without         *)
(* unpaired surrogates encode(t) returns and decode(encode(t)) = t.        *)
C1_RoundTrip ==
  (IsString(input) /\ WellFormed(input.chars) /\ eopts = DefaultEncodeOptions)
  => /\ pc = "encoded" => enc.kind = "return"
     /\ (pc = "roundtrip" /\ dopts = DefaultDecodeOptions)
        => dec = Return(input.chars)

C1_Witness ==
  /\ pc = "roundtrip"
  /\ eopts = DefaultEncodeOptions
  /\ dopts = DefaultDecodeOptions
  /\ input.chars = Str(<<"%">>) \o HiSurr \o LoSurr
  /\ enc.val = Str(<<"%", "2", "5", "%", "F", "0", "%", "9", "F", "%", "8", "E",
                     "%", "8", "9">>)
  /\ dec.val = input.chars

(* The characters the default policy leaves unescaped: A-Z a-z 0-9 - _ . ~ *)
DefaultSafe(cp) == IsAlnum(cp) \/ cp \in {Ch("-"), Ch("_"), Ch("."), Ch("~")}

RECURSIVE ExpectedDefault(_, _)
ExpectedDefault(s, k) ==
  IF k > Len(s) THEN <<>>
  ELSE LET c == CodePointAt(s, k) IN
       (IF DefaultSafe(c.cp) THEN <<s[k]>> ELSE PercentOctets(UTF8Octets(c.cp)))
       \o ExpectedDefault(s, k + c.count)

(* C2: under default options the output is, character by character in     *)
(* input order, the character itself when it is one of A-Z a-z 0-9 - _ . ~ *)
(* and otherwise the %XX triplets (uppercase hex) of its UTF-8 bytes.      *)
C2_DefaultEncoding ==
  (pc = "encoded" /\ IsString(input) /\ eopts = DefaultEncodeOptions)
  => /\ WellFormed(input.chars) => enc.kind = "return"
     /\ enc.kind = "return" => enc.val = ExpectedDefault(input.chars, 1)

C2_Witness ==
  /\ pc = "encoded"
  /\ eopts = DefaultEncodeOptions
  /\ input.chars = Str(<<"*">>) \o Euro
  /\ enc.val = Str(<<"%", "2", "A", "%", "E", "2", "%", "8", "2", "%", "A", "C">>)

StrictAlphabet(u) == IsAlnum(u) \/ u \in {Ch("-"), Ch("_"), Ch("%")}

(* C3: strict mode without allowedChars emits only A-Z a-z 0-9 - _ and %.  *)
C3_StrictAlphabetOnly ==
  (pc = "encoded" /\ eopts.strict /\ eopts.allowedChars = <<>>
   /\ ~eopts.plusForSpace /\ enc.kind = "return")
  => \A i \in DOMAIN enc.val : StrictAlphabet(enc.val[i])

RECURSIVE CountFrom(_, _, _)
CountFrom(s, k, pat) ==
  IF k > Len(s) THEN 0
  ELSE IF StartsWithAt(s, k, pat) THEN 1 + CountFrom(s, k + Len(pat), pat)
  ELSE CountFrom(s, k + 1, pat)

Occurrences(s, pat) == CountFrom(s, 1, pat)

(* C4: in either character mode every occurrence of a character listed in  *)
(* allowedChars appears literally in the output.                           *)
C4_AllowedLiteral ==
  (pc = "encoded" /\ ~eopts.plusForSpace /\ enc.kind = "return")
  => \A i \in DOMAIN eopts.allowedChars :
       Occurrences(enc.val, eopts.allowedChars[i])
         >= Occurrences(input.chars, eopts.allowedChars[i])

(* The text split at every occurrence of the code unit c. *)
RECURSIVE SplitOn(_, _)
SplitOn(s, c) ==
  IF \A i \in DOMAIN s : s[i] # c THEN <<s>>
  ELSE LET i == CHOOSE j \in DOMAIN s :
                  s[j] = c /\ \A m \in 1..(j - 1) : s[m] # c
       IN <<SubSeq(s, 1, i - 1)>> \o SplitOn(SubSeq(s, i + 1, Len(s)), c)

(* Each '+' of the output stands for one space of the input: the output    *)
(* split at '+' is the input split at spaces, each piece encoded with      *)
(* %20 for spaces (where spaces are encoded at all).                       *)
PlusOnlyFromSpaces ==
  IF eopts.strict /\ Includes(eopts.allowedChars, Str(<<" ">>))
  THEN \A i \in DOMAIN enc.val : enc.val[i] # Ch("+")
  ELSE LET segsIn == SplitOn(input.chars, Ch(" "))
           segsOut == SplitOn(enc.val, Ch("+"))
       IN /\ Len(segsOut) = Len(segsIn)
          /\ \A i \in DOMAIN segsIn :
               segsOut[i] = encode(StringValue(segsIn[i]),
                                   [eopts EXCEPT !.plusForSpace = FALSE]).val

(* C5 as stated: with plusForSpace, for every strict and allowedChars,     *)
(* every '+' of the output comes from exactly one space of the input.      *)
C5_PlusOnlyFromSpacesAlways ==
  (pc = "encoded" /\ eopts.plusForSpace /\ enc.kind = "return")
  => PlusOnlyFromSpaces

(* C5 amended: the same, unless strict mode is on with '+' or '%' listed   *)
(* in allowedChars.                                                        *)
C5_PlusOnlyFromSpaces ==
  (/\ pc = "encoded" /\ eopts.plusForSpace /\ enc.kind = "return"
   /\ ~(/\ eopts.strict
        /\ \/ Includes(eopts.allowedChars, Str(<<"+">>))
           \/ Includes(eopts.allowedChars, Str(<<"%">>))))
  => PlusOnlyFromSpaces

C5_Witness ==
  /\ pc = "encoded"
  /\ eopts.plusForSpace
  /\ eopts.strict
  /\ input.chars = Str(<<"+", " ", "%">>)
  /\ enc.val = Str(<<"%", "2", "B", "+", "%", "2", "5">>)

(* C10: encode returns for every string, unpaired surrogates included.     *)
C10_EncodeNeverRaisesOnStrings ==
  (pc = "encoded" /\ IsString(input)) => enc.kind = "return"

IsHexDigit(u) ==
  \/ u >= Ch("0") /\ u <= Ch("9")
  \/ u >= Ch("A") /\ u <= 70
  \/ u >= Ch("a") /\ u <= 102

(* A '%' that is not followed by two hexadecimal digits (truncated, or     *)
(* followed by something else).                                            *)
HasBrokenEscape(s) ==
  \E i \in DOMAIN s :
    /\ s[i] = Ch("%")
    /\ ~(i + 2 <= Len(s) /\ IsHexDigit(s[i + 1]) /\ IsHexDigit(s[i + 2]))

(* An escape of an octet that occurs in no UTF-8 text: C0, C1, F5..FF.     *)
HasImpossibleOctet(s) ==
  \E i \in DOMAIN s :
    /\ s[i] = Ch("%")
    /\ i + 2 <= Len(s)
    /\ \/ s[i + 1] = Ch("C") /\ s[i + 2] \in {Ch("0"), Ch("1")}
       \/ s[i + 1] \in {70, 102} /\ ~(s[i + 2] \in Ch("0")..Ch("4"))

HasMalformedEscape(s) == HasBrokenEscape(s) \/ HasImpossibleOctet(s)

(* C6: encode, decode and encodeUrl raise a TypeError, and return nothing, *)
(* for every first argument that is not a string, whatever the options.    *)
C6_TypeErrorForNonStrings ==
  ~IsString(input)
  => /\ pc = "encoded" => enc = Throw("TypeError")
     /\ pc = "decoded" => (dec = Throw("TypeError") /\ warnings = 0)
     /\ pc = "urlencoded" => urlenc = Throw("TypeError")
     /\ pc # "roundtrip"

C6_Witness ==
  /\ pc = "encoded"
  /\ input = NullValue
  /\ eopts.strict
  /\ eopts.plusForSpace
  /\ enc.kind = "TypeError"

(* C7: decode returns a string for every string input and either value of  *)
(* plusAsSpace; it never raises.                                           *)
C7_DecodeTotal ==
  (pc = "decoded" /\ IsString(input)) => dec.kind = "return"

C7_Witness ==
  /\ pc = "decoded"
  /\ dopts.plusAsSpace
  /\ input.chars = Str(<<"%", "E", "D", "%", "A", "0", "%", "8", "0">>)
  /\ dec = Return(input.chars)

(* C8: with plusAsSpace false, a malformed escape anywhere makes decode    *)
(* return the input exactly as received, no other escape decoded.          *)
C8_FallbackAllOrNothing ==
  (pc = "decoded" /\ IsString(input) /\ ~dopts.plusAsSpace
   /\ HasMalformedEscape(input.chars))
  => dec = Return(input.chars)

C8_Witness ==
  /\ pc = "decoded"
  /\ ~dopts.plusAsSpace
  /\ input.chars = Str(<<"%", "2", "0", "%", "2">>)
  /\ dec = Return(input.chars)

(* C9 as stated: with plusAsSpace set and a malformed escape, decode       *)
(* returns the input with every '+' replaced by a space.                   *)
C9_FallbackAfterPlus ==
  (pc = "decoded" /\ IsString(input) /\ dopts.plusAsSpace
   /\ HasMalformedEscape(input.chars))
  => dec = Return(PlusAsSpaceReplace(input.chars))

(* C9 amended: with plusAsSpace set and a malformed escape, decode returns *)
(* the input exactly as received: no '+' replaced, no escape decoded.      *)
C9_FallbackOriginal ==
  (pc = "decoded" /\ IsString(input) /\ dopts.plusAsSpace
   /\ HasMalformedEscape(input.chars))
  => dec = Return(input.chars)

C9_Witness ==
  /\ pc = "decoded"
  /\ dopts.plusAsSpace
  /\ input.chars = Str(<<"+", "%", "2", "0", "%">>)
  /\ dec = Return(input.chars)

(* The text of one field under the options of the call. *)
FieldText(chars) == encode(StringValue(chars), eopts)

(* key=value for one entry, from the encoder applied to each field. *)
PairText(entry) ==
  FieldText(entry.key).val \o Str(<<"=">>) \o FieldText(String(entry.value)).val

AllFieldsEncode(entries) ==
  \A i \in DOMAIN entries :
    /\ FieldText(entries[i].key).kind = "return"
    /\ FieldText(String(entries[i].value)).kind = "return"

(* C11: encodeQuery returns the pairs encode(String(k)) '=' encode(String  *)
(* (v)) of the entries joined with '&', without a leading '?'; 25 is       *)
(* written '25' and true 'true'; the empty map gives the empty string.     *)
C11_EncodeQueryFormat ==
  (pc = "qencoded" /\ AllFieldsEncode(input.entries)) =>
    LET entries == ObjectEntries(input.entries)
        pieces == SplitAt(qenc.val, Ch("&"))
    IN
    /\ qenc.kind = "return"
    /\ entries = <<>> => qenc.val = <<>>
    /\ entries # <<>> =>
         /\ Len(pieces) = Len(entries)
         /\ \A i \in DOMAIN entries : pieces[i] = PairText(entries[i])
         /\ qenc.val[1] # Ch("?")
    /\ \A i \in DOMAIN entries :
         /\ entries[i].value = NumberOf(25) =>
              PairValue(pieces[i]) = Str(<<"2", "5">>)
         /\ entries[i].value = BooleanOf(TRUE) =>
              PairValue(pieces[i]) = Str(<<"t", "r", "u", "e">>)

C11_Witness ==
  /\ pc = "qencoded"
  /\ eopts = DefaultEncodeOptions
  /\ input.entries = <<[key |-> Str(<<"b">>), value |-> NumberOf(25)],
                       [key |-> <<>>, value |-> BooleanOf(TRUE)]>>
  /\ qenc = Return(Str(<<"b", "=", "2", "5", "&", "=", "t", "r", "u", "e">>))

(* C12: the pairs of encodeQuery's output are in the order in which the    *)
(* keys were inserted into the map, keys of decimal-integer text included. *)
C12_InsertionOrder ==
  (pc = "qencoded" /\ qenc.kind = "return") =>
    qenc.val = JoinWith([i \in DOMAIN input.entries |-> PairText(input.entries[i])],
                        Str(<<"&">>))

(* A map as the set of its <<key, text of the value>> pairs. *)
MapOf(obj) == {<<obj[i].key, obj[i].value>> : i \in DOMAIN obj}

TextMapOf(obj) == {<<obj[i].key, obj[i].value.chars>> : i \in DOMAIN obj}

StringEntries(obj) ==
  \A i \in DOMAIN obj :
    /\ obj[i].value.typeof = "string"
    /\ WellFormed(obj[i].value.chars)
    /\ WellFormed(obj[i].key)

(* C13: for a map of string keys and string values without unpaired        *)
(* surrogates, decodeQuery(encodeQuery(m)) equals m under default options. *)
C13_QueryRoundTrip ==
  (/\ pc = "qroundtrip"
   /\ eopts = DefaultEncodeOptions
   /\ dopts = DefaultDecodeOptions
   /\ StringEntries(input.entries)) =>
    /\ qdec.kind = "return"
    /\ MapOf(qdec.val) = TextMapOf(input.entries)

(* The round trip for the maps that have no key "__proto__". *)
QueryRoundTripWithoutProto ==
  (/\ pc = "qroundtrip"
   /\ eopts = DefaultEncodeOptions
   /\ dopts = DefaultDecodeOptions
   /\ StringEntries(input.entries)
   /\ \A i \in DOMAIN input.entries : input.entries[i].key # ProtoKey) =>
    /\ qdec.kind = "return"
    /\ MapOf(qdec.val) = TextMapOf(input.entries)

(* The pairs of a query string: the text after one leading '?', split on  *)
(* '&'.                                                                    *)
PairsOf(chars) ==
  SplitAt(IF chars # <<>> /\ chars[1] = Ch("?") THEN Tail(chars) ELSE chars, Ch("&"))

HasEquals(pair) == \E i \in DOMAIN pair : pair[i] = Ch("=")

(* The text before the first '=' of a pair, and the text after it. *)
BeforeFirstEquals(pair) ==
  IF HasEquals(pair) THEN SubSeq(pair, 1, FirstIndexOf(pair, Ch("=")) - 1) ELSE pair

AfterFirstEquals(pair) ==
  IF HasEquals(pair) THEN SubSeq(pair, FirstIndexOf(pair, Ch("=")) + 1, Len(pair))
  ELSE <<>>

Decoded(chars) == decode(StringValue(chars), dopts).out.val

(* No pair after the i-th has the same decoded key. *)
LastOfItsKey(pairs, i) ==
  \A j \in DOMAIN pairs :
    j > i => Decoded(BeforeFirstEquals(pairs[j])) # Decoded(BeforeFirstEquals(pairs[i]))

KeysOf(obj) == {obj[i].key : i \in DOMAIN obj}

NonEmptyQuery == IsString(input) /\ input.chars \notin {<<>>, Str(<<"?">>)}

(* C14: a pair without '=' gives an entry whose key is the decoded pair    *)
(* text and whose value is the empty string.                               *)
C14_ValuelessPair ==
  (pc = "qdecoded" /\ NonEmptyQuery) =>
    LET pairs == PairsOf(input.chars) IN
    \A i \in DOMAIN pairs :
      ~HasEquals(pairs[i]) =>
        /\ Decoded(pairs[i]) \in KeysOf(qdec.val)
        /\ LastOfItsKey(pairs, i) => <<Decoded(pairs[i]), <<>>>> \in MapOf(qdec.val)

(* C15: each pair is split on its first '=' only: the value is the decoded *)
(* text after the first '=', later '=' included.                           *)
C15_SplitOnFirstEquals ==
  (pc = "qdecoded" /\ NonEmptyQuery) =>
    LET pairs == PairsOf(input.chars) IN
    \A i \in DOMAIN pairs :
      (LastOfItsKey(pairs, i) /\ Decoded(BeforeFirstEquals(pairs[i])) # ProtoKey) =>
        <<Decoded(BeforeFirstEquals(pairs[i])), Decoded(AfterFirstEquals(pairs[i]))>>
          \in MapOf(qdec.val)

(* C16: when several pairs have the same decoded key, the map has that key *)
(* once, with the decoded value of the last of them.                       *)
C16_LastDuplicateWins ==
  (pc = "qdecoded" /\ NonEmptyQuery) =>
    LET pairs == PairsOf(input.chars) IN
    \A i, j \in DOMAIN pairs :
      (/\ i < j
       /\ Decoded(BeforeFirstEquals(pairs[i])) = Decoded(BeforeFirstEquals(pairs[j]))
       /\ LastOfItsKey(pairs, j)) =>
        /\ Cardinality({n \in DOMAIN qdec.val :
                          qdec.val[n].key = Decoded(BeforeFirstEquals(pairs[j]))}) = 1
        /\ <<Decoded(BeforeFirstEquals(pairs[j])), Decoded(PairValue(pairs[j]))>>
             \in MapOf(qdec.val)

(* C17: exactly one leading '?' is stripped: decodeQuery('?' + q) equals   *)
(* decodeQuery(q) when q does not start with '?', a second '?' stays in    *)
(* the first key, and '' and '?' give the empty map.                       *)
C17_OneLeadingQuestionMark ==
  (pc = "qdecoded" /\ IsString(input)) =>
    /\ input.chars \in {<<>>, Str(<<"?">>)} => qdec = Return(<<>>)
    /\ (StartsWithAt(input.chars, 1, Str(<<"?">>))
        /\ ~StartsWithAt(input.chars, 1, Str(<<"?", "?">>))) =>
         qdec = decodeQuery(StringValue(Tail(input.chars)), dopts).out
    /\ StartsWithAt(input.chars, 1, Str(<<"?", "?">>)) =>
         LET firstKey == Decoded(BeforeFirstEquals(SplitAt(Tail(input.chars), Ch("&"))[1]))
         IN /\ firstKey[1] = Ch("?")
            /\ firstKey \in KeysOf(qdec.val)

C17_Witness ==
  /\ pc = "qdecoded"
  /\ input.chars = Str(<<"?", "?", "a", "=", "1">>)
  /\ qdec = Return(<<[key |-> Str(<<"?", "a">>), value |-> Str(<<"1">>)]>>)

(* The URL the parser makes of the input of encodeUrl. *)
Parsed == ParseURL(input.chars)

ParsesAsUrl == IsString(input) /\ Parsed.status = "ok"

(* The text before the first '?' or '#', the text from the first '?' up to *)
(* the '#', and the text from the first '#'.                               *)
BeforeQueryAndFragment(s) == SubSeq(s, 1, ScanTo(s, 1, {Ch("?"), Ch("#")}) - 1)

QueryPart(s) ==
  LET from == ScanTo(s, 1, {Ch("?"), Ch("#")}) IN
  IF from <= Len(s) /\ s[from] = Ch("?")
  THEN SubSeq(s, from, ScanTo(s, from, {Ch("#")}) - 1)
  ELSE <<>>

FragmentPart(s) == SubSeq(s, ScanTo(s, 1, {Ch("#")}), Len(s))

(* C18: the output before its first '?' or '#' is the input before its     *)
(* first '?' or '#': scheme, userinfo, host, port and path are untouched.  *)
C18_BaseUntouched ==
  (pc = "urlencoded" /\ ParsesAsUrl) =>
    /\ urlenc.kind = "return"
    /\ BeforeQueryAndFragment(urlenc.val) = BeforeQueryAndFragment(input.chars)

(* C19: the output query is empty when the URL has no parameters, else '?' *)
(* and encode(key) '=' encode(value) of each decoded parameter, in order,  *)
(* repeated keys kept, joined with '&'.                                    *)
C19_QueryReconstruction ==
  (pc = "urlencoded" /\ ParsesAsUrl) =>
    LET params == SearchParams(Parsed.query)
        outQuery == QueryPart(urlenc.val)
    IN
    /\ urlenc.kind = "return"
    /\ params = <<>> => outQuery = <<>>
    /\ params # <<>> =>
         /\ outQuery[1] = Ch("?")
         /\ SplitAt(Tail(outQuery), Ch("&")) =
              [i \in DOMAIN params |->
                 encode(StringValue(params[i].key), DefaultEncodeOptions).val
                 \o Str(<<"=">>)
                 \o encode(StringValue(params[i].value), DefaultEncodeOptions).val]

C19_Witness ==
  /\ pc = "urlencoded"
  /\ input.chars = Str(<<"h", "t", "t", "p", ":", "/", "/", "h", ":", "8", "/", "p",
                         "?", "a", "&", "a", "#", "a", " ", "b">>)
  /\ urlenc = Return(Str(<<"h", "t", "t", "p", ":", "/", "/", "h", ":", "8", "/", "p",
                           "?", "a", "=", "&", "a", "=",
                           "#", "a", "%", "2", "0", "b">>))

(* The fragment the parser reports, without its '#'. *)
RawFragment == IF Parsed.hash = <<>> THEN <<>> ELSE Tail(Parsed.hash)

IsUpperHex(u) == (u >= 48 /\ u <= 57) \/ (u >= 65 /\ u <= 70)

(* The form of encode's output under default options: unreserved          *)
(* characters and uppercase escapes of the UTF-8 of the other characters.  *)
RECURSIVE InEncodedFormFrom(_, _)
InEncodedFormFrom(s, k) ==
  IF k > Len(s) THEN TRUE
  ELSE IF s[k] = Ch("%")
  THEN /\ k + 2 <= Len(s)
       /\ IsUpperHex(s[k + 1]) /\ IsUpperHex(s[k + 2])
       /\ ~DefaultSafe(ParseHexOctet(s, k + 1))
       /\ InEncodedFormFrom(s, k + 3)
  ELSE DefaultSafe(s[k]) /\ InEncodedFormFrom(s, k + 1)

InEncodedForm(s) == InEncodedFormFrom(s, 1) /\ decodeURIComponent(s).kind = "return"

Contains(s, pat) == \E k \in DOMAIN s : StartsWithAt(s, k, pat)

(* C20: for a URL with a fragment that percent-decodes, the output         *)
(* fragment is '#' and encode of the decoded fragment: a fragment already  *)
(* in encode's output form is unchanged and a space gives '%20', never     *)
(* '%2520'.                                                                *)
C20_FragmentNotDoubleEncoded ==
  (/\ pc = "urlencoded"
   /\ ParsesAsUrl
   /\ RawFragment # <<>>
   /\ decodeURIComponent(RawFragment).kind = "return") =>
    /\ urlenc.kind = "return"
    /\ FragmentPart(urlenc.val) =
         Str(<<"#">>)
         \o encode(StringValue(decodeURIComponent(RawFragment).val),
                   DefaultEncodeOptions).val
    /\ InEncodedForm(RawFragment) => FragmentPart(urlenc.val) = Str(<<"#">>) \o RawFragment
    /\ ~Contains(RawFragment, Str(<<"%", "2", "5">>)) =>
         ~Contains(FragmentPart(urlenc.val), Str(<<"%", "2", "5", "2", "0">>))
    /\ Contains(FragmentPart(input.chars), Str(<<" ", "a">>)) =>
         Contains(FragmentPart(urlenc.val), Str(<<"%", "2", "0", "a">>))

C20_Witness ==
  /\ pc = "urlencoded"
  /\ input.chars = Str(<<"h", "t", "t", "p", ":", "/", "/", "h", ":", "8", "/", "p",
                         "?", "a", "=", " ", "#", "%", "2", "0", " ", "a">>)
  /\ urlenc = Return(Str(<<"h", "t", "t", "p", ":", "/", "/", "h", ":", "8", "/", "p",
                           "?", "a", "=", "%", "2", "0",
                           "#", "%", "2", "0", "%", "2", "0", "a">>))

DoesNotParse == IsString(input) /\ ParseURL(input.chars).status = "failure"

(* C21: for a string that does not parse as a URL, encodeUrl raises no     *)
(* parse error; its outcome is that of encode(input) under default         *)
(* options: the whole input encoded as text.                               *)
C21_ParseFailureFallback ==
  (pc = "urlencoded" /\ DoesNotParse) =>
    /\ urlenc.kind # "TypeError"
    /\ urlenc = encode(input, DefaultEncodeOptions)
    /\ WellFormed(input.chars) => urlenc = Return(ExpectedDefault(input.chars, 1))

C21_Witness ==
  /\ pc = "urlencoded"
  /\ input.chars = Str(<<"/", " ">>)
  /\ urlenc = Return(Str(<<"%", "2", "F", "%", "2", "0">>))

BeforeFragment(s) == SubSeq(s, 1, ScanTo(s, 1, {Ch("#")}) - 1)

(* The input with its fragment replaced by one that decodes. *)
WithPlainFragment == StringValue(BeforeFragment(input.chars) \o Str(<<"#", "a">>))

(* C22: when the fragment of a parseable URL does not percent-decode,      *)
(* encodeUrl does not raise, base and query are rebuilt as when it does,   *)
(* and the output fragment is '#' and encode of the raw fragment.          *)
C22_FragmentFailureAbsorbed ==
  (/\ pc = "urlencoded"
   /\ ParsesAsUrl
   /\ RawFragment # <<>>
   /\ decodeURIComponent(RawFragment).kind # "return") =>
    /\ urlenc.kind = "return"
    /\ BeforeFragment(urlenc.val) = BeforeFragment(encodeUrl(WithPlainFragment).val)
    /\ BeforeQueryAndFragment(urlenc.val) # BeforeQueryAndFragment(
         encode(input, DefaultEncodeOptions).val)
    /\ FragmentPart(urlenc.val) = Str(<<"#">>) \o ExpectedDefault(RawFragment, 1)

C22_Witness ==
  /\ pc = "urlencoded"
  /\ input.chars = Str(<<"h", "t", "t", "p", ":", "/", "/", "h", ":", "8", "/", "p",
                         "?", "a", "=", " ", "#", "%", "2", "0", "%">>)
  /\ urlenc = Return(Str(<<"h", "t", "t", "p", ":", "/", "/", "h", ":", "8", "/", "p",
                           "?", "a", "=", "%", "2", "0",
                           "#", "%", "2", "5", "2", "0", "%", "2", "5">>))

(* A relative reference: a path that starts with '/', no scheme. *)
IsRelativeReference == IsString(input) /\ StartsWithAt(input.chars, 1, Str(<<"/">>))

(* C23 as stated: for a relative reference the output keeps the path, and  *)
(* the '?' and '#' delimiters, as they are.                                *)
C23_RelativePathKept ==
  (pc = "urlencoded" /\ IsRelativeReference) =>
    /\ urlenc.kind = "return"
    /\ BeforeQueryAndFragment(urlenc.val) = BeforeQueryAndFragment(input.chars)
    /\ Contains(input.chars, Str(<<"?">>)) => Contains(urlenc.val, Str(<<"?">>))
    /\ Contains(input.chars, Str(<<"#">>)) => Contains(urlenc.val, Str(<<"#">>))

(* C23 amended: a relative reference does not parse, and encodeUrl gives   *)
(* encode of the whole text: '/', '?' and '#' are written %2F, %3F, %23.   *)
C23_RelativeEncodedWhole ==
  (pc = "urlencoded" /\ IsRelativeReference) =>
    /\ DoesNotParse
    /\ urlenc.kind \in {"return", "URIError"}
    /\ urlenc.kind = "return" <=> WellFormed(input.chars)
    /\ urlenc.kind = "return" =>
         /\ urlenc.val = ExpectedDefault(input.chars, 1)
         /\ ~Contains(urlenc.val, Str(<<"/">>))
         /\ ~Contains(urlenc.val, Str(<<"?">>))
         /\ ~Contains(urlenc.val, Str(<<"#">>))

C23_Witness ==
  /\ pc = "urlencoded"
  /\ input.chars = Str(<<"/", "p", "?", "a", "=", " ", "#", "a", " ", "b">>)
  /\ urlenc = Return(Str(<<"%", "2", "F", "p", "%", "3", "F", "a", "%", "3", "D",
                           "%", "2", "0", "%", "2", "3", "a", "%", "2", "0", "b">>))

(* The outcome of percent-unescaping the input of decode, after the '+'    *)
(* substitution the options ask for.                                       *)
Unescaped ==
  decodeURIComponent(IF dopts.plusAsSpace THEN PlusAsSpaceReplace(input.chars)
                     ELSE input.chars)

(* C24: decode emits a diagnostic exactly when unescaping failed, at most  *)
(* once in a call, and returns what it returns without the emission: the   *)
(* unescaped text, or the input when unescaping failed.                    *)
C24_WarnIffFailed ==
  (pc = "decoded") =>
    /\ warnings \in {0, 1}
    /\ ~IsString(input) => warnings = 0
    /\ IsString(input) =>
         /\ warnings = 1 <=> Unescaped.kind # "return"
         /\ HasMalformedEscape(input.chars) => warnings = 1
         /\ ~Contains(input.chars, Str(<<"%">>)) => warnings = 0
         /\ warnings = 0 => dec = Unescaped
         /\ warnings = 1 => dec = Return(input.chars)

C24_Witness ==
  /\ pc = "decoded"
  /\ input.chars = Str(<<"+", "%", "2", "0", "%", "C", "3">>)
  /\ dopts.plusAsSpace
  /\ warnings = 1
  /\ dec = Return(input.chars)

(* A field of a pair as decodeQuery is to give it: unescaped, or verbatim  *)
(* when it does not unescape.                                              *)
FieldUnescaped(field) ==
  decodeURIComponent(IF dopts.plusAsSpace THEN PlusAsSpaceReplace(field) ELSE field)

FieldDecoded(field) ==
  IF FieldUnescaped(field).kind = "return" THEN FieldUnescaped(field).val ELSE field

(* C25: decodeQuery never raises for a string, and the key and the value   *)
(* of each pair are decoded independently: a field that does not unescape  *)
(* is kept verbatim, the other field of the pair and the other pairs are   *)
(* decoded all the same.                                                   *)
C25_FieldsIndependent ==
  (pc = "qdecoded" /\ IsString(input)) =>
    /\ qdec.kind = "return"
    /\ NonEmptyQuery =>
         LET pairs == PairsOf(input.chars) IN
         \A i \in DOMAIN pairs :
           LastOfItsKey(pairs, i) =>
             <<FieldDecoded(PairKey(pairs[i])), FieldDecoded(PairValue(pairs[i]))>>
               \in MapOf(qdec.val)

C26_FallbackWitness ==
  /\ pc = "urlagain"
  /\ input.chars = Str(<<"/", "p", "?", "a", "=", " ", "#", "a", " ", "b">>)
  /\ urlagain = Return(Str(<<"%", "2", "5", "2", "F", "p", "%", "2", "5", "3", "F", "a",
                             "%", "2", "5", "3", "D", "%", "2", "5", "2", "0",
                             "%", "2", "5", "2", "3", "a", "%", "2", "5", "2", "0", "b">>))

(* C27: in strict mode, with any allowedChars that does not list '%',     *)
(* encode returns for every text without unpaired surrogates and decode    *)
(* under default options gives the text back.                              *)
C27_StrictRoundTrip ==
  (/\ IsString(input) /\ WellFormed(input.chars)
   /\ eopts.strict /\ ~eopts.plusForSpace
   /\ ~Includes(eopts.allowedChars, Str(<<"%">>))) =>
    /\ pc = "encoded" => enc.kind = "return"
    /\ (pc = "roundtrip" /\ dopts = DefaultDecodeOptions) =>
         /\ dec = Return(input.chars)
         /\ warnings = 0

C27_Witness ==
  /\ pc = "roundtrip"
  /\ eopts = [plusForSpace |-> FALSE, strict |-> TRUE,
              allowedChars |-> <<Str(<<".">>), Str(<<" ">>), HiSurr \o LoSurr>>]
  /\ dopts = DefaultDecodeOptions
  /\ input.chars = Str(<<"%">>) \o HiSurr \o LoSurr
  /\ enc.val = Str(<<"%", "2", "5">>) \o HiSurr \o LoSurr
  /\ dec = Return(input.chars)

PlusForSpaceOnly ==
  [plusForSpace |-> TRUE, strict |-> FALSE, allowedChars |-> <<>>]

(* C28: for a text without unpaired surrogates encoded with plusForSpace,  *)
(* decode with plusAsSpace gives the text back, a literal '+' included;    *)
(* decode under default options gives the text with every space replaced   *)
(* by '+'.                                                                 *)
C28_PlusRoundTrip ==
  (/\ pc = "roundtrip"
   /\ IsString(input) /\ WellFormed(input.chars)
   /\ eopts = PlusForSpaceOnly) =>
    /\ dopts.plusAsSpace => dec = Return(input.chars)
    /\ ~dopts.plusAsSpace =>
         dec = Return(ReplaceAll(input.chars, Str(<<" ">>), Str(<<"+">>)))

C28_Witness ==
  /\ pc = "roundtrip"
  /\ eopts = PlusForSpaceOnly
  /\ dopts.plusAsSpace
  /\ input.chars = Str(<<" ", "+", "%">>)
  /\ enc.val = Str(<<"+", "%", "2", "B", "%", "2", "5">>)
  /\ dec = Return(input.chars)

(* The other half of C28: under default decode options the space comes     *)
(* back as '+'.                                                            *)
C28_AsymmetryWitness ==
  /\ pc = "roundtrip"
  /\ eopts = PlusForSpaceOnly
  /\ ~dopts.plusAsSpace
  /\ input.chars = Str(<<" ", "+", "%">>)
  /\ dec = Return(Str(<<"+", "+", "%">>))

====
